---- MODULE Spec2Model ----
(***************************************************************************)
(* Model of the retrieval / pooling / filtering core of slt_project:       *)
(*   LLM.generate_query_pool, LLM.filter_context        (src/LLM.py)       *)
(*   SourceRetriever.get_context, get_serps_with_and_query,                *)
(*   get_context_pipeline4                    (src/SourceRetriever.py)     *)
(*   run_pipeline_4                     (src/app_rank.py, src/app.py)      *)
(*   the voting pages                   (src/app_rank.py, src/app.py)      *)
(* The specifications share the variables: SpecPool (query expansion),     *)
(* SpecFilter (relevance filter), SpecMerge (multi-query retrieval),       *)
(* SpecSearch (the search-service calls of one SERP retrieval),            *)
(* SpecCompare (both SERP retrievals on the same responses), SpecVote and  *)
(* SpecVoteLive (the voting pages, the latter with a persistent voter).    *)
(***************************************************************************)
EXTENDS Integers, Sequences, FiniteSets, TLC

VARIABLES
    pc,                \* position of the running operation
    \* ---- LLM.generate_query_pool
    client,            \* self.client is set (LLM.__init__)
    query,             \* the user's question
    response,          \* what chat.completions.create did: outcome and content
    query_pool,        \* the value generate_query_pool returned
    \* ---- LLM.filter_context
    context_df,        \* the input Context: rows in order
    i,                 \* loop variable: 0-based start of the current batch
    filtered_contexts, \* the accumulator list
    filtered_df,       \* the returned Context
    judge_log,         \* one entry per processed batch: tags shown, reply, effect
    \* ---- SourceRetriever.get_context_pipeline4 and run_pipeline_4
    es_client,         \* self.es_client is connected
    app,               \* the caller: "app_rank" (get_context_pipeline4) or "app" (inline merge)
    query_list,        \* the query pool handed to the merge
    context,           \* the Context of the current pool term
    all_contexts,      \* the accumulator list
    full_context_df,   \* the merged Context
    truncated_pool_df, \* full_context_df.head(100)
    term_log,          \* one entry per processed pool term: what its retrievals returned
    \* ---- the search service, get_serps and get_texts_from_index
    es_log,            \* the es_client.search calls issued so far, in order
    method,            \* the SERP retrieval running: get_serps or get_serps_with_and_query
    use_provider_priority,
    domain_response,   \* what the domain aggregation call did
    base_query,        \* the SERP query body: whether it has the boosting should clause
    serps_response,    \* what the SERP search call did
    serps_df,          \* the SERP frame
    texts_df,          \* the frame get_texts_from_index returned
    raised,            \* an exception left the method
    comparison,        \* get_serps_with_and_query and get_context on the same responses
    \* ---- the voting pages of app_rank.py and app.py (st.session_state)
    page,              \* app.py: 'analysis' or 'ranking'
    results_ready,
    comparison_results,
    current_vote_index,
    votes,
    voting_complete,
    show_reason_popup,
    temp_vote,
    vote_choice,       \* "Answer A", "Answer B", "Don't Care"; None is written "None"
    eval_csv,          \* the file last written to the eval folder: whether one was, its rows
    clicks             \* the vote buttons clicked in this round, in order

poolVars   == <<client, query, response, query_pool>>
filterVars == <<context_df, i, filtered_contexts, filtered_df, judge_log>>
mergeVars  == <<es_client, app, query_list, context, all_contexts, full_context_df,
                truncated_pool_df, term_log>>
searchVars == <<method, use_provider_priority, domain_response, base_query, serps_response,
                serps_df, texts_df, raised, comparison>>
voteVars   == <<page, results_ready, comparison_results, current_vote_index, votes,
                voting_complete, show_reason_popup, temp_vote, vote_choice, eval_csv, clicks>>
vars       == <<pc, poolVars, filterVars, mergeVars, es_log, searchVars, voteVars>>

-----------------------------------------------------------------------------
(* Generic helpers *)

Range(s) == {s[k] : k \in 1..Len(s)}

SeqsUpTo(S, n) == UNION {[1..k -> S] : k \in 0..n}

Min(S) == CHOOSE x \in S : \A y \in S : x <= y
Max(S) == CHOOSE x \in S : \A y \in S : x >= y

\* F(v), with v evaluated once before F uses it
Apply(F(_), v) == CHOOSE out \in {F(x) : x \in {v}} : TRUE

-----------------------------------------------------------------------------
(* LLM.generate_query_pool                                                 *)
(* The reply text is a sequence of lexical tokens: "{", "}", the key       *)
(* "queries": with its colon, three JSON values and free prose ("junk").   *)

MaxTokens == 5

Questions == {"q0", "q1"}

Tokens == {"{", "}", "queries:", "[]", "[a]", "null", "junk"}

ValueTokens == {"[]", "[a]", "null"}

Texts == SeqsUpTo(Tokens, MaxTokens)

Outcomes == {"raise", "none", "text"}

\* Python values a pool can be: a list of strings, or None.
PyList(items) == [kind |-> "list", items |-> items]
PyNone == [kind |-> "none", items |-> <<>>]

\* Value of a JSON value token.
ValueOf(tok) ==
    CASE tok = "[]"  -> PyList(<<>>)
      [] tok = "[a]" -> PyList(<<"e1">>)
      [] OTHER       -> PyNone

\* json.loads: ok (no JSONDecodeError), and the parsed document.
json_loads(t) ==
    IF Len(t) = 1 /\ t[1] \in ValueTokens
      THEN [ok |-> TRUE, isDict |-> FALSE, hasQueries |-> FALSE, queries |-> PyNone]
    ELSE IF t = <<"{", "}">>
      THEN [ok |-> TRUE, isDict |-> TRUE, hasQueries |-> FALSE, queries |-> PyNone]
    ELSE IF Len(t) = 4 /\ t[1] = "{" /\ t[2] = "queries:" /\ t[3] \in ValueTokens /\ t[4] = "}"
      THEN [ok |-> TRUE, isDict |-> TRUE, hasQueries |-> TRUE, queries |-> ValueOf(t[3])]
    ELSE [ok |-> FALSE, isDict |-> FALSE, hasQueries |-> FALSE, queries |-> PyNone]

\* re.search(r'\{.*}', text, re.DOTALL): leftmost "{", greedy to the last "}".
re_search(t) ==
    LET opens  == {k \in 1..Len(t) : t[k] = "{"}
        closes == {k \in 1..Len(t) : t[k] = "}"}
    IN  IF opens # {} /\ closes # {} /\ Max(closes) > Min(opens)
          THEN [found |-> TRUE, group |-> SubSeq(t, Min(opens), Max(closes))]
          ELSE [found |-> FALSE, group |-> <<>>]

DefaultPoolEmpty(q) == PyList(<<>>)

\* The fallback value: `[query]`.
DefaultPool(q) == PyList(<<q>>)

\* response_data.get("queries", [query])
GetQueries(doc, q) == IF doc.hasQueries THEN doc.queries ELSE DefaultPool(q)

\* The whole method: the value it returns.
generate_query_pool(c, q, outcome, content) ==
    IF ~c THEN DefaultPool(q)
    ELSE IF outcome = "raise" THEN DefaultPool(q)
    ELSE IF outcome = "none" THEN DefaultPool(q)     \* json.loads(None): TypeError, outer except
    ELSE LET first == json_loads(content) IN
         IF first.ok
           THEN IF first.isDict THEN GetQueries(first, q)
                ELSE DefaultPool(q)                  \* list.get: AttributeError, outer except
           ELSE LET match == re_search(content) IN
                IF match.found
                  THEN LET second == json_loads(match.group) IN
                       IF second.ok THEN GetQueries(second, q) ELSE DefaultPool(q)
                  ELSE DefaultPool(q)

NoResponse == [outcome |-> "raise", content |-> <<>>]

PoolIdle ==
    /\ client = FALSE
    /\ query = "q0"
    /\ response = NoResponse
    /\ query_pool = PyNone

FilterIdle ==
    /\ context_df = <<>>
    /\ i = 0
    /\ filtered_contexts = <<>>
    /\ filtered_df = <<>>
    /\ judge_log = <<>>

MergeIdle ==
    /\ es_client = FALSE
    /\ app = "app_rank"
    /\ query_list = <<>>
    /\ context = [cols |-> {}, rows |-> <<>>]
    /\ all_contexts = <<>>
    /\ full_context_df = [cols |-> {}, rows |-> <<>>]
    /\ truncated_pool_df = [cols |-> {}, rows |-> <<>>]
    /\ term_log = <<>>

SearchIdle ==
    /\ es_log = <<>>
    /\ method = "get_serps"
    /\ use_provider_priority = TRUE
    /\ domain_response = [outcome |-> "none", buckets |-> <<>>]
    /\ base_query = [should |-> FALSE]
    /\ serps_response = [outcome |-> "none", hits |-> <<>>]
    /\ serps_df = [cols |-> {}, rows |-> <<>>]
    /\ texts_df = [cols |-> {}, rows |-> <<>>]
    /\ raised = FALSE
    /\ comparison = [hits |-> <<>>, snippets |-> <<>>, and_context |-> [cols |-> {}, rows |-> <<>>],
                     or_raised |-> FALSE, or_context |-> [cols |-> {}, rows |-> <<>>]]

VoteIdle ==
    /\ page = "ranking"
    /\ results_ready = FALSE
    /\ comparison_results = <<>>
    /\ current_vote_index = 0
    /\ votes = <<>>
    /\ voting_complete = FALSE
    /\ show_reason_popup = FALSE
    /\ temp_vote = PyNone
    /\ vote_choice = "None"
    /\ eval_csv = [written |-> FALSE, rows |-> <<>>]
    /\ clicks = <<>>

InitPool ==
    /\ pc = "start"
    /\ PoolIdle
    /\ FilterIdle
    /\ MergeIdle
    /\ SearchIdle
    /\ VoteIdle

GenerateQueryPool ==
    /\ pc = "start"
    /\ \E c \in BOOLEAN, q \in Questions, o \in Outcomes, t \in Texts :
         /\ (o # "text" => t = <<>>)
         /\ client' = c
         /\ query' = q
         /\ response' = [outcome |-> o, content |-> t]
         /\ query_pool' = generate_query_pool(c, q, o, t)
    /\ pc' = "done"
    /\ UNCHANGED <<voteVars, filterVars, mergeVars, es_log, searchVars>>

NextPool == GenerateQueryPool

SpecPool == InitPool /\ [][NextPool]_vars

-----------------------------------------------------------------------------
(* Claims about generate_query_pool *)

\* The reply was text the two-stage parse could not read.
Unparseable(t) ==
    /\ ~json_loads(t).ok
    /\ (re_search(t).found => ~json_loads(re_search(t).group).ok)

\* C1: the pool generate_query_pool returns is a list with at least one
\* element, whatever the expansion collaborator did.
C1_PoolNeverEmpty ==
    pc = "done" => (query_pool.kind = "list" /\ Len(query_pool.items) >= 1)

\* C2: when the client is not initialised, the call raises, or the reply
\* cannot be parsed (strict parse fails and the brace-extraction repair
\* fails or finds nothing), the returned pool is exactly [query].
C2_FallbackIsOriginal ==
    (pc = "done" /\ (\/ ~client
                     \/ response.outcome = "raise"
                     \/ response.outcome = "text" /\ Unparseable(response.content)))
        => query_pool = PyList(<<query>>)

\* Witnesses for C2: the repair found a brace group that did not parse, and
\* the repair found no brace group at all.
C2_Witness ==
    /\ pc = "done" /\ client /\ response.outcome = "text"
    /\ ~json_loads(response.content).ok
    /\ re_search(response.content).found
    /\ ~json_loads(re_search(response.content).group).ok
    /\ query_pool = PyList(<<query>>)

-----------------------------------------------------------------------------
(* LLM.filter_context                                                      *)
(* A Context row is [label, text]: label is the DataFrame index label      *)
(* (every producer ends with reset_index(drop=True), so the label of the   *)
(* k-th row is k-1), text identifies the snippet text.                     *)

batch_size == 5

MaxContext == 6        \* longest input Context (two batches)
MaxIndices == 2        \* longest relevant_indices list of one reply

\* Index values a reply may hold: below -len (IndexError), negative in range,
\* valid positions, batch_size itself, and labels of second-batch rows.
IndexValues == {-6, -1, 0, 1, 4, 5, 6}

IndexLists == SeqsUpTo(IndexValues, MaxIndices)

\* What the judge call did: it raised, its text was not JSON, or it parsed
\* to {"relevant_indices": indices}.
JudgeReplies ==
    {[outcome |-> "raise", indices |-> <<>>], [outcome |-> "badjson", indices |-> <<>>]}
    \cup {[outcome |-> "ok", indices |-> l] : l \in IndexLists}

\* Input Contexts: n rows with pairwise distinct texts, or the same with the
\* last row repeating the text of the first.
ContextInputs ==
    {[k \in 1..n |-> k] : n \in 0..MaxContext}
    \cup {[k \in 1..n |-> IF k = n THEN 1 ELSE k] : n \in 2..MaxContext}

Row(label, text) == [label |-> label, text |-> text]

\* context_df.iloc[start : start + batch_size], as rows
Batch(ctx, start) ==
    LET last == IF start + batch_size < Len(ctx) THEN start + batch_size ELSE Len(ctx)
    IN  [k \in 1..(last - start) |-> Row(start + k - 1, ctx[start + k])]

\* for idx, row in batch.iterrows(): f"[{idx}]: {row['text']}" -- the tag is
\* the index label of the row.
BatchTexts(batch) == [k \in 1..Len(batch) |-> [tag |-> batch[k].label, row |-> batch[k]]]

\* batch.iloc[idx] for an idx in bounds (negative positions count from the end)
iloc(batch, idx) == IF idx >= 0 THEN batch[idx + 1] ELSE batch[Len(batch) + idx + 1]

\* the guard of line 313
IndexAccepted(batch, idx) == idx < Len(batch)

\* The loop of lines 312-314: rows appended so far, whether batch.iloc raised
\* IndexError, and per index what it did.
RECURSIVE SelectRelevant(_, _)
SelectRelevant(batch, indices) ==
    IF indices = <<>> THEN [rows |-> <<>>, raised |-> FALSE, effects |-> <<>>]
    ELSE LET idx == Head(indices) IN
         IF IndexAccepted(batch, idx)
           THEN IF idx >= -Len(batch)
                  THEN LET rest == SelectRelevant(batch, Tail(indices))
                       IN  [rows    |-> <<iloc(batch, idx)>> \o rest.rows,
                            raised  |-> rest.raised,
                            effects |-> <<[idx |-> idx, did |-> "select",
                                           row |-> iloc(batch, idx)]>> \o rest.effects]
                  ELSE [rows |-> <<>>, raised |-> TRUE,
                        effects |-> <<[idx |-> idx, did |-> "error", row |-> Row(-1, 0)]>>]
           ELSE LET rest == SelectRelevant(batch, Tail(indices))
                IN  [rows    |-> rest.rows,
                     raised  |-> rest.raised,
                     effects |-> <<[idx |-> idx, did |-> "skip", row |-> Row(-1, 0)]>>
                                 \o rest.effects]

FallbackBatchSkipsFirst(batch) == Tail(batch)

\* [batch.iloc[j] for j in range(len(batch))] of lines 319 and 324
FallbackBatch(batch) == batch

\* What one loop iteration appends to filtered_contexts, and the index effects.
ProcessBatch(batch, reply) ==
    IF reply.outcome \in {"raise", "badjson"}
      THEN [rows |-> FallbackBatch(batch), effects |-> <<>>]
      ELSE LET sel == SelectRelevant(batch, reply.indices) IN
           IF sel.raised
             THEN [rows |-> sel.rows \o FallbackBatch(batch), effects |-> sel.effects]
             ELSE [rows |-> sel.rows, effects |-> sel.effects]

RowTexts(rows) == [k \in 1..Len(rows) |-> rows[k].text]

InitFilter ==
    /\ pc = "start"
    /\ PoolIdle
    /\ FilterIdle
    /\ MergeIdle
    /\ SearchIdle
    /\ VoteIdle

\* Entry of filter_context with its early return (lines 253-258).
FilterContextEnter ==
    /\ pc = "start"
    /\ \E c \in BOOLEAN, ctx \in ContextInputs :
         /\ client' = c
         /\ context_df' = ctx
         /\ IF ~c \/ ctx = <<>>
              THEN filtered_df' = ctx /\ pc' = "done"
              ELSE filtered_df' = <<>> /\ pc' = "batch"
    /\ i' = 0
    /\ filtered_contexts' = <<>>
    /\ judge_log' = <<>>
    /\ UNCHANGED <<voteVars, query, response, query_pool, mergeVars, es_log, searchVars>>

\* One iteration of the batch loop (lines 262-324).
FilterBatch ==
    /\ pc = "batch"
    /\ i < Len(context_df)
    /\ \E reply \in JudgeReplies :
         LET batch == Batch(context_df, i)
             out   == ProcessBatch(batch, reply)
         IN  /\ filtered_contexts' = filtered_contexts \o out.rows
             /\ judge_log' = Append(judge_log,
                    [start   |-> i,
                     shown   |-> BatchTexts(batch),
                     reply   |-> reply,
                     effects |-> out.effects,
                     added   |-> out.rows])
    /\ i' = i + batch_size
    /\ UNCHANGED <<voteVars, pc, poolVars, context_df, filtered_df, mergeVars, es_log, searchVars>>

\* The end of the method (lines 326-332).
FilterContextReturn ==
    /\ pc = "batch"
    /\ i >= Len(context_df)
    /\ filtered_df' = IF filtered_contexts # <<>> THEN RowTexts(filtered_contexts)
                                                  ELSE context_df
    /\ pc' = "done"
    /\ UNCHANGED <<voteVars, poolVars, context_df, i, filtered_contexts, judge_log, mergeVars, es_log, searchVars>>

NextFilter == FilterContextEnter \/ FilterBatch \/ FilterContextReturn

SpecFilter == InitFilter /\ [][NextFilter]_vars

-----------------------------------------------------------------------------
(* Claims about filter_context *)

\* The rows of the batch that starts at 0-based position start.
BatchRowsOf(ctx, start) ==
    [k \in 1..(IF Len(ctx) - start < batch_size THEN Len(ctx) - start ELSE batch_size)
        |-> Row(start + k - 1, ctx[start + k])]

\* C3: an index outside [0, len(batch)) that the judge returns causes no
\* exception and selects no record.
C3_OutOfRangeIndexIgnored ==
    \A n \in 1..Len(judge_log) :
        LET e == judge_log[n] IN
        \A k \in 1..Len(e.effects) :
            (e.effects[k].idx < 0 \/ e.effects[k].idx >= Len(e.shown))
                => e.effects[k].did = "skip"

\* C5: every record of every batch is shown with its position within the
\* batch as tag, and a judge that answers with tags it was shown gets exactly
\* the records carrying those tags selected.
C5_TagsAreBatchPositions ==
    \A n \in 1..Len(judge_log) :
        LET e == judge_log[n] IN
        /\ \A k \in 1..Len(e.shown) : e.shown[k].tag = k - 1
        /\ (e.reply.outcome = "ok"
            /\ Range(e.reply.indices) \subseteq {e.shown[k].tag : k \in 1..Len(e.shown)})
              => Range(e.added) =
                   {e.shown[k].row : k \in {j \in 1..Len(e.shown) :
                                              e.shown[j].tag \in Range(e.reply.indices)}}

\* C10: fail-open. If the judge call raised on every batch the returned
\* Context equals the input Context, and every batch whose call raised or
\* whose reply was not JSON contributed exactly its own rows, each once, in
\* order.
C10_FailOpen ==
    /\ (pc = "done" /\ judge_log # <<>>
        /\ \A n \in 1..Len(judge_log) : judge_log[n].reply.outcome = "raise")
          => filtered_df = context_df
    /\ \A n \in 1..Len(judge_log) :
          judge_log[n].reply.outcome \in {"raise", "badjson"}
            => judge_log[n].added = BatchRowsOf(context_df, judge_log[n].start)

\* Witness for C10: two batches, the judge raised on both, the method returned.
C10_Witness ==
    /\ pc = "done"
    /\ Len(judge_log) = 2
    /\ \A n \in 1..2 : judge_log[n].reply.outcome = "raise"
    /\ Len(context_df) > batch_size
    /\ filtered_df = context_df

-----------------------------------------------------------------------------
(* SourceRetriever: DataFrames and the search service                      *)
(* A DataFrame is [cols, rows]: the set of its column names and its rows   *)
(* in order.  pd.DataFrame() has neither.  A text is a number that stands  *)
(* for one snippet string; TextLength is its len().                        *)

OneRowFrame == [cols |-> {"text"}, rows |-> <<[text |-> 1]>>]

\* pd.DataFrame()
EmptyFrame == [cols |-> {}, rows |-> <<>>]

\* DataFrame.empty: some axis has length 0
Empty(df) == df.cols = {} \/ df.rows = <<>>

MinTextLength == 100   \* .query("length > 100")
TruncateCap   == 100   \* .head(100)

MaxPool == 2           \* longest query pool
BigSize == 51          \* snippets of one SERP in the large snippet collection

Queries == {"q0", "q1"}

BigText(q, k) == (IF q = "q0" THEN 1000 ELSE 2000) + k

TextLength(t) ==
    CASE t = 1 -> 101
      [] t = 2 -> 150
      [] t = 3 -> 200
      [] t = 4 -> 100
      [] t = 5 -> 40
      [] OTHER -> 300

\* A hit of the SERP index; domain "" stands for a hit without provider.domain.
SerpHit(id, score, domain) ==
    [id |-> id, warc_query |-> id, score |-> score, domain |-> domain]

\* required_columns of get_texts_from_index (line 218)
RequiredColumns ==
    {"_source.serp.id", "_source.snippet.id", "_source.snippet.text", "_source.snippet.rank"}

\* A hit of the results index; present tells which of the fields its
\* _source has (the value of a field it has not is NaN after json_normalize).
PartialHit(serp, text, rank, present) ==
    [serp_id |-> serp, snippet_id |-> 10 * serp + rank, text |-> text, rank |-> rank,
     present |-> present]

\* A hit of the results index that has every field.
SnippetHit(serp, text, rank) == PartialHit(serp, text, rank, RequiredColumns)

\* What es_client.search on the SERP index can do for one query.
SerpResponses ==
    {[outcome |-> "raise", hits |-> <<>>],
     [outcome |-> "ok", hits |-> <<>>],
     [outcome |-> "ok", hits |-> <<SerpHit(1, 2, "")>>],
     [outcome |-> "ok", hits |-> <<SerpHit(1, 2, ""), SerpHit(2, 1, "")>>]}

\* What the results index can hold for the SERPs of query q (the documents
\* that have a snippet.text), or that the search on it raises.
SnippetCollections(q) ==
    {[outcome |-> "raise", docs |-> <<>>],
     [outcome |-> "ok", docs |-> <<>>],
     [outcome |-> "ok", docs |-> <<SnippetHit(1, 2, 3), SnippetHit(1, 4, 2), SnippetHit(1, 1, 1),
                                   SnippetHit(2, 3, 1), SnippetHit(2, 5, 2)>>],
     [outcome |-> "ok", docs |-> <<SnippetHit(1, 1, 1), SnippetHit(1, 1, 2), SnippetHit(2, 2, 1)>>],
     [outcome |-> "ok", docs |-> <<SnippetHit(1, 4, 1), SnippetHit(2, 5, 1)>>],
     [outcome |-> "ok", docs |-> [k \in 1..BigSize |-> SnippetHit(1, BigText(q, k), k)]]}

\* pd.json_normalize(serps['hits']['hits']): the columns the hits give.
SerpColumns(hits) ==
    IF hits = <<>> THEN {}
    ELSE {"_id", "_source.warc_query", "_score"}
         \cup (IF \E k \in 1..Len(hits) : hits[k].domain # ""
                 THEN {"_source.provider.domain"} ELSE {})

\* df.loc[:, columns]: KeyError when a column is missing.
loc_columns(df, columns) ==
    IF columns \subseteq df.cols
      THEN [raised |-> FALSE, frame |-> [cols |-> columns, rows |-> df.rows]]
      ELSE [raised |-> TRUE, frame |-> EmptyFrame]

\* The body of the try of lines 152-167 (and 447-462): the search call,
\* json_normalize, the column selection.  A response without ['hits']['hits']
\* raises KeyError at line 159, and so does .loc on missing columns at line
\* 162; the handler of line 163 runs the same expression again (line 165),
\* which raises again.
SerpsBody(resp) ==
    IF resp.outcome # "ok" THEN [raised |-> TRUE, frame |-> EmptyFrame]
    ELSE LET normalized == [cols |-> SerpColumns(resp.hits), rows |-> resp.hits]
             columns    == {"_id", "_source.warc_query", "_score"}
                           \cup (normalized.cols \cap {"_source.provider.domain"})
         IN  loc_columns(normalized, columns)

except_serps_off(result) == result

\* except Exception: return pd.DataFrame()  (lines 169-171, 512-514)
except_serps(result) ==
    IF result.raised THEN [raised |-> FALSE, frame |-> EmptyFrame] ELSE result

\* The SERP part shared by get_serps (lines 152-171) and
\* get_serps_with_and_query (lines 447-462): search, normalize, select the
\* columns; every exception ends in `return pd.DataFrame()`.
SerpsFrame(resp) == except_serps(SerpsBody(resp)).frame

get_serps(connected, resp) ==
    IF ~connected THEN EmptyFrame ELSE SerpsFrame(resp)

\* whether an exception leaves get_serps
get_serps_raised(connected, resp) ==
    connected /\ except_serps(SerpsBody(resp)).raised

\* What the domain aggregation call can do: raise, answer without
\* ["aggregations"]["domain_counts"]["buckets"], or answer with buckets.
AggResponses ==
    {[outcome |-> "raise", buckets |-> <<>>],
     [outcome |-> "malformed", buckets |-> <<>>],
     [outcome |-> "ok", buckets |-> <<>>],
     [outcome |-> "ok", buckets |-> <<"d1">>]}

\* The body of the try of lines 108-146 (and 406-442): the should clause is
\* added when the call answered with at least one bucket.
AggregationBody(agg) ==
    IF agg.outcome # "ok" THEN [raised |-> TRUE, should |-> FALSE]
    ELSE [raised |-> FALSE, should |-> agg.buckets # <<>>]

except_aggregation_off(result) == result

\* except Exception: print a warning and go on  (lines 148-150, 444-445)
except_aggregation(result) == [raised |-> FALSE, should |-> result.should]

\* The es_client.search calls of the aggregation step (lines 107, 132).
AggregationCalls(priority) == IF priority THEN <<"aggregation">> ELSE <<>>

\* The calls get_serps issues: none without a client (line 75), else the
\* aggregation when boosting is on and the SERP search (line 153).
get_serps_calls(connected, priority) ==
    IF ~connected THEN <<>> ELSE AggregationCalls(priority) \o <<"serps">>

ShortCircuitNever(df) == FALSE

\* if serps_df.empty: return pd.DataFrame()  (lines 183-185)
ShortCircuit(df) == Empty(df)

\* The calls get_texts_from_index issues (line 208).
get_texts_calls(df) == IF ShortCircuit(df) THEN <<>> ELSE <<"texts">>

\* The terms query of get_texts_from_index: the documents of the asked SERPs.
SnippetSearch(docs, df) ==
    LET ids == {df.rows[k].id : k \in 1..Len(df.rows)}
        Asked(d) == d.serp_id \in ids
    IN  SelectSeq(docs, Asked)

\* texts_df.columns after pd.json_normalize(hits): a field is a column as
\* soon as one hit has it.
TextsColumns(hits) == UNION {hits[k].present : k \in 1..Len(hits)}

get_texts_from_index(df, coll) ==
    IF ShortCircuit(df) THEN EmptyFrame
    ELSE IF coll.outcome = "raise" THEN EmptyFrame
    ELSE LET hits == SnippetSearch(coll.docs, df) IN
         IF hits = <<>> THEN EmptyFrame
         ELSE IF RequiredColumns \ TextsColumns(hits) # {} THEN EmptyFrame
         ELSE [cols |-> RequiredColumns, rows |-> hits]

\* A row of a joined frame.  Columns a frame does not have hold 0 or "".
\* hit_score and hit_rank are not columns: they tell from which _score and
\* snippet.rank the record was joined, and stay on the record when the
\* columns score and rank are dropped.
JoinedRow(s, t) ==
    [query |-> s.warc_query, provider_domain |-> s.domain, text |-> t.text,
     score |-> s.score, rank |-> t.rank, source_query |-> "",
     hit_score |-> s.score, hit_rank |-> t.rank]

RECURSIVE JoinRows(_, _)
JoinRows(left, right) ==
    IF left = <<>> THEN <<>>
    ELSE LET s == Head(left)
             Match(t) == t.serp_id = s.id
             mine == SelectSeq(right, Match)
         IN  [k \in 1..Len(mine) |-> JoinedRow(s, mine[k])] \o JoinRows(Tail(left), right)

\* pd.merge(serps, texts, left_on="_id", right_on="_source.serp.id",
\* how="inner").drop("_id", axis=1).rename(...): KeyError when a key column
\* is missing, else the joined rows in the order of the left keys.
pd_merge(serps, texts) ==
    IF "_id" \notin serps.cols \/ "_source.serp.id" \notin texts.cols
      THEN [raised |-> TRUE, frame |-> EmptyFrame]
      ELSE [raised |-> FALSE,
            frame |-> [cols |-> {"query", "score", "serp_id", "snippet_id", "text", "rank"}
                                \cup (IF "_source.provider.domain" \in serps.cols
                                        THEN {"provider_domain"} ELSE {}),
                       rows |-> JoinRows(serps.rows, texts.rows)]]

\* a sorts before b under (score descending, rank ascending)
Precedes(a, b) == a.score > b.score \/ (a.score = b.score /\ a.rank < b.rank)

\* A stable sort: row k goes behind every row that sorts before it and behind
\* every earlier row that it does not sort before.
StableSort(rows, Before(_, _)) ==
    LET Sorted(rs) ==
            LET n == Len(rs)
                Placed(place) == [p \in 1..n |-> rs[CHOOSE k \in 1..n : place[k] = p]]
            IN  Apply(Placed,
                      [k \in 1..n |->
                         1 + Cardinality({j \in 1..n :
                               \/ Before(rs[j], rs[k])
                               \/ (j < k /\ ~Before(rs[k], rs[j]))})])
    IN  Apply(Sorted, rows)

sort_values_off(rows) == rows

\* .sort_values(["score", "rank"], ascending=[False, True])
sort_values(rows) == StableSort(rows, Precedes)

LengthFilterInclusive(rows) ==
    LET Long(r) == TextLength(r.text) >= MinTextLength
    IN  SelectSeq(rows, Long)

\* .assign(length=...).query("length > 100")
LengthFilter(rows) ==
    LET Long(r) == TextLength(r.text) > MinTextLength
    IN  SelectSeq(rows, Long)

\* .loc[:, final_columns]: the other columns are dropped
FinalRow(r, final_columns) ==
    [query |-> r.query,
     provider_domain |-> IF "provider_domain" \in final_columns THEN r.provider_domain ELSE "",
     text |-> r.text, score |-> 0, rank |-> 0, source_query |-> "",
     hit_score |-> r.hit_score, hit_rank |-> r.hit_rank]

\* The tail shared by get_context (lines 270-298) and
\* get_serps_with_and_query (lines 481-510).
FinalContext(merged) ==
    LET final_columns == {"query", "text"} \cup (merged.cols \cap {"provider_domain"})
        Final(kept) == [cols |-> final_columns,
                        rows |-> [k \in 1..Len(kept) |-> FinalRow(kept[k], final_columns)]]
    IN  Apply(Final, LengthFilter(sort_values(merged.rows)))

\* get_context: the frame it returns, or that it raised (pd.merge's KeyError
\* is not caught in it).
get_context(connected, resp, coll) ==
    IF ~connected THEN [raised |-> FALSE, frame |-> EmptyFrame]
    ELSE LET serps_frame == get_serps(connected, resp)
             texts_frame == get_texts_from_index(serps_frame, coll)
             merged == pd_merge(serps_frame, texts_frame)
         IN  IF merged.raised THEN [raised |-> TRUE, frame |-> EmptyFrame]
             ELSE [raised |-> FALSE, frame |-> FinalContext(merged.frame)]

\* get_serps_with_and_query: everything after the aggregation is inside one
\* try whose except returns pd.DataFrame().
get_serps_with_and_query(connected, resp, coll) ==
    IF ~connected THEN EmptyFrame
    ELSE IF resp.outcome = "raise" THEN EmptyFrame
    ELSE IF resp.hits = <<>> THEN EmptyFrame
    ELSE LET serps_frame == SerpsFrame(resp)
             texts_frame == get_texts_from_index(serps_frame, coll)
         IN  IF Empty(texts_frame) THEN EmptyFrame
             ELSE LET merged == pd_merge(serps_frame, texts_frame) IN
                  IF merged.raised THEN EmptyFrame ELSE FinalContext(merged.frame)

\* The calls of get_context: none without a client (lines 248-250), else
\* those of get_serps and of get_texts_from_index on its result.
get_context_calls(connected, priority, resp) ==
    IF ~connected THEN <<>>
    ELSE get_serps_calls(connected, priority) \o get_texts_calls(get_serps(connected, resp))

\* The calls of get_serps_with_and_query: none without a client (line 373),
\* else the aggregation, the SERP search and, unless the search failed or
\* had no hits (lines 451-452), those of get_texts_from_index.
get_serps_with_and_query_calls(connected, priority, resp) ==
    IF ~connected THEN <<>>
    ELSE AggregationCalls(priority) \o <<"serps">>
         \o (IF resp.outcome # "ok" \/ resp.hits = <<>> THEN <<>>
                ELSE get_texts_calls(SerpsFrame(resp)))

-----------------------------------------------------------------------------
(* get_context_pipeline4 (app_rank.py's run_pipeline_4) and the inline     *)
(* merge of app.py's run_pipeline_4                                        *)

\* The query pools: the two queries differ in nothing but the texts they
\* retrieve, so a pool starts with q0 and then repeats it or alternates.
Pools ==
    {[k \in 1..n |-> "q0"] : n \in 0..MaxPool}
    \cup {[k \in 1..n |-> IF k % 2 = 1 THEN "q0" ELSE "q1"] : n \in 0..MaxPool}

\* context['source_query'] = space_query
Tag(df, term) ==
    LET Tagged(d) ==
            [cols |-> d.cols \cup {"source_query"},
             rows |-> [k \in 1..Len(d.rows) |-> [d.rows[k] EXCEPT !.source_query = term]]]
    IN  Apply(Tagged, df)

FallbackContextKeepsAnd(and_context, or_context) == and_context

\* line 332: context = self.get_context(space_query, use_provider_priority)
FallbackContext(and_context, or_context) == or_context

RECURSIVE ConcatRows(_)
ConcatRows(frames) ==
    IF frames = <<>> THEN <<>> ELSE Head(frames).rows \o ConcatRows(Tail(frames))

pd_concat_reversed(frames) ==
    [cols |-> UNION {frames[k].cols : k \in 1..Len(frames)},
     rows |-> ConcatRows([k \in 1..Len(frames) |-> frames[Len(frames) + 1 - k]])]

\* pd.concat(all_contexts, ignore_index=True)
pd_concat(frames) ==
    [cols |-> UNION {frames[k].cols : k \in 1..Len(frames)}, rows |-> ConcatRows(frames)]

drop_duplicates_off(df) == df

\* The rows at the positions that satisfy Keep, in order.
RowsWhere(rows, Keep(_)) ==
    LET Test(x) == Keep(x.at)
        Unnumbered(kept) == [n \in 1..Len(kept) |-> kept[n].row]
    IN  Apply(Unnumbered,
              SelectSeq([k \in 1..Len(rows) |-> [at |-> k, row |-> rows[k]]], Test))

drop_duplicates_keep_last(df) ==
    LET Dedup(d) ==
            LET Last(k) == \A j \in (k + 1)..Len(d.rows) : d.rows[j].text # d.rows[k].text
            IN  [cols |-> d.cols, rows |-> RowsWhere(d.rows, Last)]
    IN  Apply(Dedup, df)

\* .drop_duplicates(subset=['text'], keep='first')
drop_duplicates(df) ==
    LET Dedup(d) ==
            LET First(k) == \A j \in 1..(k - 1) : d.rows[j].text # d.rows[k].text
            IN  [cols |-> d.cols, rows |-> RowsWhere(d.rows, First)]
    IN  Apply(Dedup, df)

\* score descending only
PrecedesByScore(a, b) == a.score > b.score

\* lines 350-352: sorted only when the frame has a score column
sort_if_score(df) ==
    IF "score" \in df.cols
      THEN [cols |-> df.cols, rows |-> StableSort(df.rows, PrecedesByScore)]
      ELSE df

head_all(df, n) == df

\* DataFrame.head(n)
head(df, n) ==
    [cols |-> df.cols,
     rows |-> SubSeq(df.rows, 1, IF Len(df.rows) < n THEN Len(df.rows) ELSE n)]

\* lines 343-360 of SourceRetriever.py
MergePipeline4(contexts) ==
    IF contexts = <<>> THEN EmptyFrame
    ELSE sort_if_score(drop_duplicates(pd_concat(contexts)))

\* lines 134-136 of app.py
MergeInline(contexts) ==
    IF contexts = <<>> THEN EmptyFrame
    ELSE drop_duplicates(pd_concat(contexts))

\* What the loop body did for one pool term; snippets is what the results
\* index held for it.
LogEntry(term, snippets, and_empty, or_called, serps_empty, texts_empty, or_raised, or_ctx, ctx) ==
    [term |-> term, snippets |-> snippets, and_empty |-> and_empty, or_called |-> or_called,
     serps_empty |-> serps_empty, texts_empty |-> texts_empty,
     or_raised |-> or_raised, or_ctx |-> or_ctx, context |-> ctx]

InitMerge ==
    /\ pc = "start"
    /\ PoolIdle
    /\ FilterIdle
    /\ MergeIdle
    /\ SearchIdle
    /\ VoteIdle

\* run_pipeline_4 starts the merge; get_context_pipeline4 returns at once
\* without a client or without a pool (lines 312-318).
RunPipeline4Enter ==
    /\ pc = "start"
    /\ \E c \in BOOLEAN, a \in {"app_rank", "app"}, pool \in Pools :
         /\ es_client' = c
         /\ app' = a
         /\ query_list' = pool
         /\ pc' = IF a = "app" THEN "or"
                  ELSE IF ~c \/ pool = <<>> THEN "merged" ELSE "and"
         /\ full_context_df' = IF a = "app_rank" /\ (~c \/ pool = <<>>)
                                  THEN EmptyFrame ELSE full_context_df
    /\ i' = 0
    /\ UNCHANGED <<voteVars, searchVars, poolVars, context_df, filtered_contexts, filtered_df, judge_log,
                   context, all_contexts, truncated_pool_df, term_log, es_log>>

RetryWithOrAlways(and_context) == TRUE

\* line 330: if context.empty
RetryWithOr(and_context) == Empty(and_context)

\* Lines 324-330 and 335-341: the AND retrieval of the pool term at i.
AndRetrieve ==
    /\ pc = "and"
    /\ i < Len(query_list)
    /\ LET term == query_list[i + 1] IN
       \E resp \in SerpResponses, coll \in SnippetCollections(term) :
       \E ctx \in {get_serps_with_and_query(es_client, resp, coll)} :
         /\ context' = ctx
         /\ es_log' = es_log \o get_serps_with_and_query_calls(es_client, TRUE, resp)
         /\ IF RetryWithOr(ctx)
              THEN /\ pc' = "or"
                   /\ UNCHANGED <<i, all_contexts, term_log>>
              ELSE /\ pc' = "and"
                   /\ i' = i + 1
                   /\ all_contexts' = Append(all_contexts, Tag(ctx, term))
                   /\ term_log' = Append(term_log,
                          LogEntry(term, coll.docs, FALSE, FALSE, FALSE, FALSE, FALSE, EmptyFrame, ctx))
    /\ UNCHANGED <<voteVars, searchVars, poolVars, context_df, filtered_contexts, filtered_df, judge_log,
                   es_client, app, query_list, full_context_df, truncated_pool_df>>

\* Lines 330-341 of SourceRetriever.py (the OR retry of the term at i), and
\* lines 129-132 of app.py (get_context for the term at i).  A KeyError of
\* get_context leaves the loop; run_pipeline_4 catches it.
OrRetrieve ==
    /\ pc = "or"
    /\ i < Len(query_list)
    /\ LET term == query_list[i + 1] IN
       \E resp \in SerpResponses, coll \in SnippetCollections(term) :
       \E serps \in {get_serps(es_client, resp)} :
       \E texts \in {get_texts_from_index(serps, coll)} :
       \E got \in {get_context(es_client, resp, coll)} :
       \E ctx \in {IF app = "app_rank" THEN FallbackContext(context, got.frame)
                                         ELSE got.frame} :
         LET entry == IF app = "app_rank" THEN Tag(ctx, term) ELSE ctx
         IN  /\ es_log' = es_log \o get_context_calls(es_client, TRUE, resp)
             /\ term_log' = Append(term_log,
                    LogEntry(term, coll.docs, app = "app_rank", TRUE, Empty(serps), Empty(texts),
                             got.raised, got.frame, IF got.raised THEN EmptyFrame ELSE ctx))
             /\ IF got.raised
                  THEN /\ pc' = "error"
                       /\ UNCHANGED <<i, context, all_contexts>>
                  ELSE /\ pc' = IF app = "app_rank" THEN "and" ELSE "or"
                       /\ i' = i + 1
                       /\ context' = ctx
                       /\ all_contexts' = IF Empty(ctx) THEN all_contexts
                                          ELSE Append(all_contexts, entry)
    /\ UNCHANGED <<voteVars, searchVars, poolVars, context_df, filtered_contexts, filtered_df, judge_log,
                   es_client, app, query_list, full_context_df, truncated_pool_df>>

\* After the loop: lines 343-360 of SourceRetriever.py, lines 134-136 of app.py.
Merge ==
    /\ pc \in {"and", "or"}
    /\ i = Len(query_list)
    /\ full_context_df' = IF app = "app_rank" THEN MergePipeline4(all_contexts)
                                              ELSE MergeInline(all_contexts)
    /\ pc' = "merged"
    /\ UNCHANGED <<voteVars, searchVars, poolVars, filterVars, es_client, app, query_list, context,
                   all_contexts, truncated_pool_df, term_log, es_log>>

\* run_pipeline_4 after the merge: app_rank.py lines 116-118, app.py line 137.
Truncate ==
    /\ pc = "merged"
    /\ truncated_pool_df' = IF Empty(full_context_df) THEN EmptyFrame
                            ELSE head(full_context_df, TruncateCap)
    /\ pc' = "done"
    /\ UNCHANGED <<voteVars, searchVars, poolVars, filterVars, es_client, app, query_list, context,
                   all_contexts, full_context_df, term_log, es_log>>

NextMerge == RunPipeline4Enter \/ AndRetrieve \/ OrRetrieve \/ Merge \/ Truncate

SpecMerge == InitMerge /\ [][NextMerge]_vars

-----------------------------------------------------------------------------
(* Claims about get_context and the multi-query merge *)

TextsOf(df) == {df.rows[k].text : k \in 1..Len(df.rows)}

DistinctTexts(df) == Cardinality(TextsOf(df)) = Len(df.rows)

Returned == pc \in {"merged", "done"}

\* C4: get_context does not raise and returns an empty Context whenever a
\* join side is empty (no SERP hits, failed SERP search, no snippets).
C4_EmptySideGivesEmptyContext ==
    \A n \in 1..Len(term_log) :
        LET e == term_log[n] IN
        (e.or_called /\ (e.serps_empty \/ e.texts_empty))
            => (~e.or_raised /\ Empty(e.or_ctx))

\* C6 as claimed: get_context_pipeline4 never returns more than 100 records.
C6_MergeAtMost100 ==
    (Returned /\ app = "app_rank") => Len(full_context_df.rows) <= TruncateCap

\* C6 as amended: the Context run_pipeline_4 keeps after the merge, i.e. the
\* merge result cut by head(100), never has more than 100 records, and it is
\* the first records of the merge result.
C6_TruncatedAtMost100 ==
    pc = "done" =>
        /\ Len(truncated_pool_df.rows) <= TruncateCap
        /\ \A k \in 1..Len(truncated_pool_df.rows) :
              truncated_pool_df.rows[k] = full_context_df.rows[k]
        /\ (Len(full_context_df.rows) <= TruncateCap
              => Len(truncated_pool_df.rows) = Len(full_context_df.rows))

\* Witness for C6: a merge of more than 100 records was cut to 100.
C6_Witness ==
    /\ pc = "done"
    /\ Len(full_context_df.rows) > TruncateCap
    /\ Len(truncated_pool_df.rows) = TruncateCap

\* C7: no two records of a merged Context have the same text, in
\* get_context_pipeline4 and in the inline merge of app.py alike.
C7_NoDuplicateText ==
    Returned => (DistinctTexts(full_context_df) /\ DistinctTexts(truncated_pool_df))

\* Witness for C7: one per-query Context repeated a text, two per-query
\* Contexts shared a text, and the merge returned records.
C7_Witness ==
    /\ pc = "merged"
    /\ full_context_df.rows # <<>>
    /\ \E m \in 1..Len(all_contexts) : ~DistinctTexts(all_contexts[m])
    /\ \E m1, m2 \in 1..Len(all_contexts) :
          m1 < m2 /\ TextsOf(all_contexts[m1]) \cap TextsOf(all_contexts[m2]) # {}

\* C8: a record of get_context_pipeline4's output carries as source_query the
\* earliest pool query whose Context held its text.
C8_FirstOccurrenceWins ==
    (Returned /\ app = "app_rank") =>
        \A k \in 1..Len(full_context_df.rows) :
            LET r == full_context_df.rows[k]
                holders == {n \in 1..Len(term_log) : r.text \in TextsOf(term_log[n].context)}
            IN  holders # {} /\ r.source_query = query_list[Min(holders)]

\* Witness for C8: two different pool queries retrieved the same text and
\* the output holds it.
C8_Witness ==
    /\ pc = "merged" /\ app = "app_rank"
    /\ Len(term_log) = 2
    /\ query_list[1] # query_list[2]
    /\ \E k \in 1..Len(full_context_df.rows) :
          /\ full_context_df.rows[k].text \in TextsOf(term_log[1].context)
          /\ full_context_df.rows[k].text \in TextsOf(term_log[2].context)
          /\ full_context_df.rows[k].source_query = query_list[1]

\* The pool term of log entry n found nothing with AND and something with OR.
OrFallbackCase(n) ==
    /\ app = "app_rank"
    /\ term_log[n].and_empty /\ term_log[n].or_called
    /\ ~term_log[n].or_raised /\ ~Empty(term_log[n].or_ctx)

\* C9: for a pool term whose AND retrieval is empty and whose get_context is
\* not, the get_context result, tagged with the term, is what is accumulated
\* and merged: each of its texts is in the output, under this term unless an
\* earlier pool term already held the text.
C9_OrFallbackMerged ==
    \A n \in 1..Len(term_log) :
        OrFallbackCase(n) =>
            LET e == term_log[n] IN
            /\ \E m \in 1..Len(all_contexts) :
                  /\ all_contexts[m].cols = e.or_ctx.cols \cup {"source_query"}
                  /\ Len(all_contexts[m].rows) = Len(e.or_ctx.rows)
                  /\ \A k \in 1..Len(e.or_ctx.rows) :
                        all_contexts[m].rows[k] =
                            [e.or_ctx.rows[k] EXCEPT !.source_query = e.term]
            /\ Returned =>
                  \A k \in 1..Len(e.or_ctx.rows) :
                      \E j \in 1..Len(full_context_df.rows) :
                          /\ full_context_df.rows[j].text = e.or_ctx.rows[k].text
                          /\ \/ full_context_df.rows[j].source_query = e.term
                             \/ \E m \in 1..(n - 1) :
                                   e.or_ctx.rows[k].text \in TextsOf(term_log[m].context)

\* Witness for C9: the merge returned after such a term.
C9_Witness ==
    /\ pc = "merged"
    /\ \E n \in 1..Len(term_log) :
          /\ OrFallbackCase(n)
          /\ \E j \in 1..Len(full_context_df.rows) :
                /\ full_context_df.rows[j].source_query = term_log[n].term
                /\ full_context_df.rows[j].text \in TextsOf(term_log[n].or_ctx)

\* C11: when no pool term yields any result (AND retrieval and OR retry both
\* find nothing, for every term tried), get_context_pipeline4 does not raise
\* and what it returns is the empty Context.
C11_NoResultsReturnsEmpty ==
    (app = "app_rank" /\ \A n \in 1..Len(term_log) : Empty(term_log[n].context))
        => /\ pc # "error"
           /\ Returned => Empty(full_context_df)

-----------------------------------------------------------------------------
(* Further claims about filter_context *)

\* Every batch was answered with a parsed reply whose indices are positions
\* of the batch.
AllRepliesInRange ==
    \A n \in 1..Len(judge_log) :
        /\ judge_log[n].reply.outcome = "ok"
        /\ \A k \in 1..Len(judge_log[n].reply.indices) :
              /\ judge_log[n].reply.indices[k] >= 0
              /\ judge_log[n].reply.indices[k] < Len(judge_log[n].shown)

\* C12: the surviving records are in the output in the relative order they
\* have in the input Context, whatever the order of the indices the judge
\* returned.
C12_OrderPreserved ==
    AllRepliesInRange =>
        \A j, k \in 1..Len(filtered_contexts) :
            j < k => filtered_contexts[j].label <= filtered_contexts[k].label

\* C13: for a non-empty input Context, when the judge answered every batch
\* and selected no record in any of them, filter_context returns an empty
\* DataFrame.
C13_EmptyWhenNothingRelevant ==
    (/\ pc = "done" /\ client /\ context_df # <<>>
     /\ \A n \in 1..Len(judge_log) :
           judge_log[n].reply.outcome = "ok" /\ judge_log[n].added = <<>>)
        => filtered_df = <<>>

-----------------------------------------------------------------------------
(* Claims about the records of a Context *)

AllLong(df) == \A k \in 1..Len(df.rows) : TextLength(df.rows[k].text) > MinTextLength

\* C14: every record of a Context returned by get_context, by
\* get_serps_with_and_query or by get_context_pipeline4 has a text longer
\* than 100 characters.
C14_TextsLongerThan100 ==
    /\ \A n \in 1..Len(term_log) : AllLong(term_log[n].or_ctx) /\ AllLong(term_log[n].context)
    /\ AllLong(context)
    /\ AllLong(full_context_df)
    /\ AllLong(truncated_pool_df)

\* Witness for C14: the results index held a snippet of exactly 100
\* characters for a pool term whose Context has records, none of them that
\* snippet, and the merge returned.
C14_Witness ==
    /\ pc = "merged" /\ full_context_df.rows # <<>>
    /\ \E n \in 1..Len(term_log) :
          /\ term_log[n].context.rows # <<>>
          /\ \E d \in 1..Len(term_log[n].snippets) :
                /\ TextLength(term_log[n].snippets[d].text) = MinTextLength
                /\ term_log[n].snippets[d].text \notin TextsOf(term_log[n].context)
                /\ term_log[n].snippets[d].text \notin TextsOf(full_context_df)

\* a is not behind b under (score descending, rank ascending)
InOrder(a, b) ==
    a.hit_score > b.hit_score \/ (a.hit_score = b.hit_score /\ a.hit_rank <= b.hit_rank)

\* Each record is in order with its successor; the order is transitive, so
\* this is the same as every earlier record being in order with every later.
SortedByScoreRank(df) == \A k \in 1..(Len(df.rows) - 1) : InOrder(df.rows[k], df.rows[k + 1])

\* C15: a Context returned by get_context is ordered by (score descending,
\* rank ascending) of the SERP score and snippet rank its records were joined
\* from, also after the length filter.
C15_GetContextSorted ==
    \A n \in 1..Len(term_log) :
        (term_log[n].or_called /\ ~term_log[n].or_raised)
            => SortedByScoreRank(term_log[n].or_ctx)

\* Witness for C15: get_context returned records of two SERPs, the results
\* index held the snippets of a SERP in another order than their ranks, and
\* the length filter removed a snippet ranked between returned ones.
C15_Witness ==
    \E n \in 1..Len(term_log) :
        LET e == term_log[n] IN
        /\ e.or_called /\ ~e.or_raised
        /\ \E j, k \in 1..Len(e.or_ctx.rows) : e.or_ctx.rows[j].hit_score # e.or_ctx.rows[k].hit_score
        /\ \E j, k \in 1..Len(e.snippets) :
              /\ j < k
              /\ e.snippets[j].serp_id = e.snippets[k].serp_id
              /\ e.snippets[j].rank > e.snippets[k].rank
              /\ {e.snippets[j].text, e.snippets[k].text} \subseteq TextsOf(e.or_ctx)
        /\ \E d \in 1..Len(e.snippets) :
              /\ e.snippets[d].text \notin TextsOf(e.or_ctx)
              /\ \E j, k \in 1..Len(e.or_ctx.rows) :
                    /\ j < k
                    /\ e.or_ctx.rows[j].query = e.snippets[d].serp_id
                    /\ e.or_ctx.rows[k].query = e.snippets[d].serp_id
                    /\ e.or_ctx.rows[j].hit_rank < e.snippets[d].rank
                    /\ e.snippets[d].rank < e.or_ctx.rows[k].hit_rank

\* C16: the records of a Context returned by get_context_pipeline4 are
\* sorted by search score descending, across the pool queries they come from.
C16_MergeSortedByScore ==
    (Returned /\ app = "app_rank") =>
        \A k \in 1..(Len(full_context_df.rows) - 1) :
            full_context_df.rows[k].hit_score >= full_context_df.rows[k + 1].hit_score

-----------------------------------------------------------------------------
(* Claims about the search-service calls of the merge *)

\* C17: called with an empty query pool, get_context_pipeline4 returns an
\* empty Context and has issued no call to the search service.
C17_EmptyPoolNoSearch ==
    (Returned /\ app = "app_rank" /\ query_list = <<>>)
        => Empty(full_context_df) /\ es_log = <<>>

\* Witness for C17: a connected client was handed the empty pool and the
\* merge returned.
C17_Witness ==
    /\ pc = "merged" /\ app = "app_rank"
    /\ es_client /\ query_list = <<>>
    /\ Empty(full_context_df)

-----------------------------------------------------------------------------
(* get_serps / get_serps_with_and_query up to the SERP frame, followed by  *)
(* get_texts_from_index on that frame (get_context lines 253-254,          *)
(* get_serps_with_and_query line 465)                                      *)

Methods == {"get_serps", "get_serps_with_and_query"}

\* SERP search outcomes: those of the merge, a response without
\* ['hits']['hits'], and a hit that has a provider domain.
SerpResponsesAll ==
    SerpResponses
    \cup {[outcome |-> "malformed", hits |-> <<>>],
          [outcome |-> "ok", hits |-> <<SerpHit(1, 2, "d1")>>]}

\* Snippet search outcomes: those of the merge, hits that all lack the
\* snippet rank, and hits of which only the second lacks it.
SnippetCollectionsAll(q) ==
    SnippetCollections(q)
    \cup {[outcome |-> "ok",
           docs |-> <<PartialHit(1, 1, 1, RequiredColumns \ {"_source.snippet.rank"}),
                      PartialHit(1, 2, 2, RequiredColumns \ {"_source.snippet.rank"})>>],
          [outcome |-> "ok",
           docs |-> <<SnippetHit(1, 1, 1),
                      PartialHit(1, 2, 2, RequiredColumns \ {"_source.snippet.rank"})>>]}

InitSearch ==
    /\ pc = "start"
    /\ PoolIdle
    /\ FilterIdle
    /\ MergeIdle
    /\ SearchIdle
    /\ VoteIdle

\* Entry: without a client the method returns pd.DataFrame() at once
\* (lines 75-77, 373-374); the aggregation step runs when boosting is on
\* (lines 107, 405).
GetSerpsEnter ==
    /\ pc = "start"
    /\ \E c \in BOOLEAN, m \in Methods, p \in BOOLEAN :
         /\ es_client' = c
         /\ method' = m
         /\ use_provider_priority' = p
         /\ pc' = IF ~c THEN (IF m = "get_serps" THEN "texts" ELSE "done")
                  ELSE IF p THEN "aggregate" ELSE "search"
    /\ UNCHANGED <<voteVars, poolVars, filterVars, app, query_list, context, all_contexts,
                   full_context_df, truncated_pool_df, term_log, es_log,
                   domain_response, base_query, serps_response, serps_df, texts_df, raised,
                   comparison>>

\* The aggregation step (lines 107-150, 405-445).
Aggregate ==
    /\ pc = "aggregate"
    /\ \E agg \in AggResponses :
         LET result == except_aggregation(AggregationBody(agg))
         IN  /\ domain_response' = agg
             /\ es_log' = es_log \o AggregationCalls(use_provider_priority)
             /\ base_query' = [should |-> result.should]
             /\ raised' = result.raised
             /\ pc' = IF result.raised THEN "done" ELSE "search"
    /\ UNCHANGED <<voteVars, poolVars, filterVars, mergeVars, method, use_provider_priority,
                   serps_response, serps_df, texts_df, comparison>>

\* The SERP search and its frame (lines 152-171, 447-462).
\* get_serps_with_and_query returns before the snippet lookup when the
\* search failed or had no hits.
SearchSerps ==
    /\ pc = "search"
    /\ \E resp \in SerpResponsesAll :
         LET result == except_serps(SerpsBody(resp))
         IN  /\ serps_response' = resp
             /\ es_log' = get_serps_calls(es_client, use_provider_priority)
             /\ serps_df' = result.frame
             /\ raised' = result.raised
             /\ pc' = IF result.raised THEN "done"
                      ELSE IF method = "get_serps_with_and_query"
                              /\ (resp.outcome # "ok" \/ resp.hits = <<>>) THEN "done"
                      ELSE "texts"
    /\ UNCHANGED <<voteVars, poolVars, filterVars, mergeVars, method, use_provider_priority,
                   domain_response, base_query, texts_df, comparison>>

\* get_texts_from_index(serps_df) on the frame the SERP step produced.
GetTexts ==
    /\ pc = "texts"
    /\ \E coll \in SnippetCollectionsAll("q0") :
         /\ texts_df' = get_texts_from_index(serps_df, coll)
         /\ es_log' = es_log \o get_texts_calls(serps_df)
    /\ pc' = "done"
    /\ UNCHANGED <<voteVars, poolVars, filterVars, mergeVars, method, use_provider_priority,
                   domain_response, base_query, serps_response, serps_df, raised, comparison>>

NextSearch == GetSerpsEnter \/ Aggregate \/ SearchSerps \/ GetTexts

SpecSearch == InitSearch /\ [][NextSearch]_vars

-----------------------------------------------------------------------------
(* Claims about get_serps and get_texts_from_index *)

\* get_serps has returned (its caller goes on with the snippet lookup).
SerpsReturned == pc \in {"texts", "done"} /\ ~raised

\* There is no client, the SERP search call failed, or its response does not
\* give the expected columns (no ['hits']['hits'], or no hit at all).
SerpsUnavailable ==
    \/ ~es_client
    \/ serps_response.outcome \in {"raise", "malformed"}
    \/ serps_response.outcome = "ok" /\ serps_response.hits = <<>>

\* C18: get_serps never raises to its caller, and returns an empty result
\* when the client is not connected, the SERP search fails, or its response
\* cannot be turned into the expected columns.
C18_GetSerpsNeverRaises ==
    method = "get_serps" =>
        /\ ~raised
        /\ (SerpsReturned /\ SerpsUnavailable) => serps_df = EmptyFrame

\* Witness for C18: a connected get_serps got a response without hits list
\* and returned the empty frame.
C18_Witness ==
    /\ method = "get_serps" /\ es_client
    /\ pc = "texts" /\ ~raised
    /\ serps_response.outcome = "malformed"
    /\ serps_df = EmptyFrame

\* C19: get_texts_from_index called with an empty SERP set returns an empty
\* result and issues no search-service call.
C19_EmptySerpsNoLookup ==
    (pc = "done" /\ method = "get_serps" /\ ~raised /\ Empty(serps_df))
        => /\ texts_df = EmptyFrame
           /\ \A k \in 1..Len(es_log) : es_log[k] # "texts"

\* Witness for C19: the SERP search of a connected client had no hits, and
\* get_texts_from_index returned for the empty frame; the SERP search is the
\* last call issued.
C19_Witness ==
    /\ pc = "done" /\ method = "get_serps" /\ es_client /\ ~raised
    /\ serps_response.outcome = "ok"
    /\ Empty(serps_df)
    /\ es_log # <<>> /\ es_log[Len(es_log)] = "serps"

\* The SERP search call has been issued.
SerpSearchIssued == \E k \in 1..Len(es_log) : es_log[k] = "serps"

AggregationFailed ==
    use_provider_priority /\ domain_response.outcome \in {"raise", "malformed"}

\* C20: with boosting enabled, a failure of the domain aggregation is
\* swallowed: no error propagates, the SERP search is issued afterwards,
\* without boost clause; and a SERP query carries the boost clause exactly
\* when boosting is enabled and the aggregation answered with a bucket.
C20_AggregationFailureSwallowed ==
    /\ AggregationFailed =>
          /\ ~raised
          /\ ~base_query.should
          /\ pc \in {"texts", "done"} => es_log[1] = "aggregation" /\ es_log[2] = "serps"
    /\ SerpSearchIssued =>
          (base_query.should <=> /\ use_provider_priority
                                 /\ domain_response.outcome = "ok"
                                 /\ domain_response.buckets # <<>>)

\* Witness for C20: the aggregation raised, the SERP search followed without
\* boost clause and returned SERPs.
C20_Witness ==
    /\ AggregationFailed /\ domain_response.outcome = "raise"
    /\ SerpSearchIssued
    /\ ~base_query.should /\ ~raised
    /\ serps_df.rows # <<>>

\* C21: get_texts_from_index returns no partially populated row: every row
\* it returns comes from a hit that has all four expected fields.
C21_NoPartialRows ==
    \A k \in 1..Len(texts_df.rows) : RequiredColumns \subseteq texts_df.rows[k].present

-----------------------------------------------------------------------------
(* Claims about duplicates in filter_context *)

PairwiseDistinct(texts) == Cardinality(Range(texts)) = Len(texts)

\* C22: when the input Context of filter_context has pairwise distinct
\* texts, so has the output, whatever the judge replied.
C22_FilterKeepsDistinct ==
    (pc = "done" /\ PairwiseDistinct(context_df)) => PairwiseDistinct(filtered_df)

-----------------------------------------------------------------------------
(* Claims about the order of the merge *)

\* The records the pool terms retrieved, each under its term, in pool order.
RetrievedInPoolOrder ==
    ConcatRows([n \in 1..Len(term_log) |->
        [rows |-> [k \in 1..Len(term_log[n].context.rows) |->
                     [term_log[n].context.rows[k] EXCEPT !.source_query = term_log[n].term]]]])

\* out is seq without the later duplicates of a text: each record of out is
\* the first record of seq with its text, these first records appear in out
\* in the order they have in seq, and no text of seq is missing.
KeepsFirstInOrder(out, seq) ==
    LET first == [k \in 1..Len(out) |->
                     Min({j \in 1..Len(seq) : seq[j].text = out[k].text} \cup {Len(seq) + 1})]
    IN  /\ \A k \in 1..Len(out) : first[k] <= Len(seq) /\ out[k] = seq[first[k]]
        /\ \A k \in 1..(Len(out) - 1) : first[k] < first[k + 1]
        /\ {seq[j].text : j \in 1..Len(seq)} = {out[k].text : k \in 1..Len(out)}

\* C23: when the per-query Contexts carry no score column, the output of
\* get_context_pipeline4 is their concatenation in pool order, each in its
\* own order, without the later duplicates of a text.
C23_ConcatenationOrder ==
    (/\ pc = "merged" /\ app = "app_rank"
     /\ \A m \in 1..Len(all_contexts) : "score" \notin all_contexts[m].cols)
        => \E seq \in {RetrievedInPoolOrder} : KeepsFirstInOrder(full_context_df.rows, seq)

\* Witness for C23: two pool terms retrieved records, the second term one
\* the first had and one it had not, and the merge returned records of both.
C23_Witness ==
    /\ pc = "merged" /\ app = "app_rank"
    /\ Len(term_log) = 2
    /\ TextsOf(term_log[1].context) \cap TextsOf(term_log[2].context) # {}
    /\ TextsOf(term_log[2].context) \ TextsOf(term_log[1].context) # {}
    /\ \E j, k \in 1..Len(full_context_df.rows) :
          /\ j < k
          /\ full_context_df.rows[j].source_query = term_log[1].term
          /\ full_context_df.rows[k].source_query = term_log[2].term
          /\ term_log[1].term # term_log[2].term

\* The number of SERP searches issued so far.
SerpSearches == Cardinality({k \in 1..Len(es_log) : es_log[k] = "serps"})

\* Every finished term has one log entry, in pool order; an OR retrieval was
\* run only for a term whose AND retrieval was empty; and there was one SERP
\* search per AND retrieval and one per OR retrieval, the AND retrieval of
\* the term in progress included.
OneRetrievalPerTerm ==
    app = "app_rank" =>
        /\ Len(term_log) = (IF pc = "error" THEN i + 1 ELSE i)
        /\ \A n \in 1..Len(term_log) :
              /\ term_log[n].term = query_list[n]
              /\ term_log[n].or_called => term_log[n].and_empty
        /\ SerpSearches = Len(term_log)
                          + Cardinality({n \in 1..Len(term_log) : term_log[n].or_called})
                          + (IF pc = "or" THEN 1 ELSE 0)

\* A step of the loop: the OR retrieval starts only from an AND retrieval of
\* the same term that returned empty; after it the loop goes on with the
\* next term or the exception leaves; after a non-empty AND retrieval the
\* loop goes on with the next term; terms are taken one by one.
InPoolOrderStep ==
    /\ i' \in {i, i + 1}
    /\ (app' = "app_rank" /\ pc' = "or")
          => pc = "and" /\ i' = i /\ Empty(context') /\ term_log' = term_log
    /\ (app = "app_rank" /\ pc = "or")
          => /\ pc' \in {"and", "error"}
             /\ Len(term_log') = Len(term_log) + 1
             /\ pc' = "and" => i' = i + 1
    /\ (app = "app_rank" /\ pc = "and" /\ pc' = "and")
          => /\ i' = i + 1
             /\ Len(term_log') = Len(term_log) + 1
             /\ ~term_log'[i'].or_called

\* C24: get_context_pipeline4 processes the pool in pool order, runs the AND
\* retrieval once per term and the OR retrieval at most once and only after
\* an empty AND retrieval, and finishes a term before it starts the next.
C24_PoolOrderNoRetry == []OneRetrievalPerTerm /\ [][InPoolOrderStep]_vars

\* Witness for C24: a pool of two terms was processed, the first with the OR
\* fallback and the second without.
C24_Witness ==
    /\ pc = "merged" /\ app = "app_rank"
    /\ Len(term_log) = 2
    /\ term_log[1].or_called
    /\ ~term_log[2].or_called

-----------------------------------------------------------------------------
(* get_serps_with_and_query (lines 447-510) and get_context (lines 252-298) *)
(* of a connected retriever, given the same search responses               *)

\* The hits a SERP index can hold for the comparison.
CompareHits ==
    {SerpHit(id, score, domain) : id \in {1, 2}, score \in {1, 2}, domain \in {"", "d1"}}

\* Non-empty SERP hit lists: one hit, or two hits with different ids.
CompareHitLists ==
    {<<h>> : h \in CompareHits}
    \cup {<<g, h>> : g \in {x \in CompareHits : x.id = 1}, h \in {x \in CompareHits : x.id = 2}}
    \cup {<<h, g>> : g \in {x \in CompareHits : x.id = 1}, h \in {x \in CompareHits : x.id = 2}}

InitCompare ==
    /\ pc = "start"
    /\ PoolIdle
    /\ FilterIdle
    /\ MergeIdle
    /\ SearchIdle
    /\ VoteIdle

\* Both methods run against a search service that answers the SERP search
\* with hits and the snippet search with coll.
CompareRetrievals ==
    /\ pc = "start"
    /\ \E hits \in CompareHitLists, coll \in SnippetCollectionsAll("q0") :
       \E resp \in {[outcome |-> "ok", hits |-> hits]} :
       \E got \in {get_context(TRUE, resp, coll)} :
         comparison' = [hits        |-> hits,
                        snippets    |-> coll,
                        and_context |-> get_serps_with_and_query(TRUE, resp, coll),
                        or_raised   |-> got.raised,
                        or_context  |-> got.frame]
    /\ pc' = "compared"
    /\ UNCHANGED <<voteVars, poolVars, filterVars, mergeVars, es_log, method, use_provider_priority,
                   domain_response, base_query, serps_response, serps_df, texts_df, raised>>

NextCompare == CompareRetrievals

SpecCompare == InitCompare /\ [][NextCompare]_vars

\* C25: given the same non-empty SERP hit list and the same snippet hit
\* list, get_serps_with_and_query and get_context produce the same Context.
C25_SameContext ==
    pc = "compared" =>
        /\ ~comparison.or_raised
        /\ comparison.and_context = comparison.or_context

-----------------------------------------------------------------------------
(* The voting pages: app_rank.py lines 158-514, app.py lines 16-30, 339-616 *)
(* One action is one run of the script with one button pressed, up to its   *)
(* st.rerun(); CompleteVoting is the run that follows the last vote.        *)

MaxQueries == 2

QueryNames == <<"t1", "t2", "t3", "t4">>

TEST_QUERIES == SubSeq(QueryNames, 1, MaxQueries)

Reasons == {"because"}

Choices == {"Answer A", "Don't Care", "Answer B"}

\* What a pipeline run returns to the page: its answer and its time.
run_pipeline_1(q) == [answer |-> <<"answer of Pipeline 1", q>>, execution_time |-> 1]

run_pipeline_4(q) == [answer |-> <<"answer of Pipeline 4", q>>, execution_time |-> 4]

\* The entry appended for one query; choice is random.choice([True, False]).
ComparisonResult(caller, q, choice) ==
    LET pipeline1_result == run_pipeline_1(q)
        pipeline4_result == run_pipeline_4(q)
        left_result  == IF choice THEN <<"Pipeline 1", pipeline1_result>>
                                  ELSE <<"Pipeline 4", pipeline4_result>>
        right_result == IF choice THEN <<"Pipeline 4", pipeline4_result>>
                                  ELSE <<"Pipeline 1", pipeline1_result>>
    IN IF caller = "app_rank"
       THEN [query            |-> q,
             left             |-> left_result,
             right            |-> right_result,
             pipeline1_answer |-> pipeline1_result.answer,
             pipeline4_answer |-> pipeline4_result.answer,
             pipeline1_time   |-> pipeline1_result.execution_time,
             pipeline4_time   |-> pipeline4_result.execution_time]
       ELSE [query            |-> q,
             left             |-> left_result,
             right            |-> right_result,
             pipeline1_answer |-> pipeline1_result.answer,
             pipeline4_answer |-> pipeline4_result.answer]

\* result = st.session_state.comparison_results[current_idx]
CurrentResultFirst(results, current_idx) == results[1]

CurrentResult(results, current_idx) == results[current_idx + 1]

\* if current_idx < len(st.session_state.comparison_results)
HasQuestionShort(results, current_idx) == current_idx + 1 < Len(results)

HasQuestion(results, current_idx) == current_idx < Len(results)

WinnerIgnoresPlacement(result, choice) ==
    CASE choice = "Answer A" -> "Pipeline 1"
      [] choice = "Answer B" -> "Pipeline 4"
      [] OTHER               -> "Don't Care"

\* winner = result['left'][0] / 'Don\'t Care' / result['right'][0]
Winner(result, choice) ==
    CASE choice = "Answer A" -> result.left[1]
      [] choice = "Answer B" -> result.right[1]
      [] OTHER               -> "Don't Care"

\* The dict a vote button builds.
VoteRecord(caller, result, choice) ==
    IF caller = "app_rank"
    THEN [query                  |-> result.query,
          output_1               |-> result.pipeline1_answer,
          output_2               |-> result.pipeline4_answer,
          winner                 |-> Winner(result, choice),
          pipeline1_time_seconds |-> result.pipeline1_time,
          pipeline4_time_seconds |-> result.pipeline4_time]
    ELSE [query    |-> result.query,
          output_1 |-> result.pipeline1_answer,
          output_2 |-> result.pipeline4_answer,
          winner   |-> Winner(result, choice)]

SetReasonDropped(vote, reason) == vote

\* st.session_state.temp_vote['reason'] = reason
SetReason(vote, reason) ==
    [k \in DOMAIN vote \cup {"reason"} |-> IF k = "reason" THEN reason ELSE vote[k]]

votes_df_after_reset(recorded) == <<>>

\* votes_df = pd.DataFrame(st.session_state.votes), built when the results
\* page is drawn (app_rank.py line 437), before the button's handler runs.
votes_df(recorded) == recorded

\* The state after construction: app.py opens on its analysis page,
\* app_rank.py has the one page.
InitVote ==
    /\ pc = "page"
    /\ PoolIdle
    /\ FilterIdle
    /\ SearchIdle
    /\ app \in {"app_rank", "app"}
    /\ es_client = FALSE
    /\ query_list = <<>>
    /\ context = [cols |-> {}, rows |-> <<>>]
    /\ all_contexts = <<>>
    /\ full_context_df = [cols |-> {}, rows |-> <<>>]
    /\ truncated_pool_df = [cols |-> {}, rows |-> <<>>]
    /\ term_log = <<>>
    /\ page = IF app = "app" THEN "analysis" ELSE "ranking"
    /\ results_ready = FALSE
    /\ comparison_results = <<>>
    /\ current_vote_index = 0
    /\ votes = <<>>
    /\ voting_complete = FALSE
    /\ show_reason_popup = FALSE
    /\ temp_vote = PyNone
    /\ vote_choice = "None"
    /\ eval_csv = [written |-> FALSE, rows |-> <<>>]
    /\ clicks = <<>>

\* app.py lines 23-26.
GoToRanking ==
    /\ app = "app"
    /\ page = "analysis"
    /\ page' = "ranking"
    /\ UNCHANGED <<pc, poolVars, filterVars, mergeVars, es_log, searchVars, results_ready,
                   comparison_results, current_vote_index, votes, voting_complete,
                   show_reason_popup, temp_vote, vote_choice, eval_csv, clicks>>

\* app.py lines 27-30.
BackToAnalysis ==
    /\ app = "app"
    /\ page = "ranking"
    /\ page' = "analysis"
    /\ UNCHANGED <<pc, poolVars, filterVars, mergeVars, es_log, searchVars, results_ready,
                   comparison_results, current_vote_index, votes, voting_complete,
                   show_reason_popup, temp_vote, vote_choice, eval_csv, clicks>>

\* 'Start Comparison': app_rank.py lines 224-261, app.py lines 388-423.
StartComparison ==
    /\ page = "ranking"
    /\ ~results_ready
    /\ \E placement \in [1..Len(TEST_QUERIES) -> BOOLEAN] :
         comparison_results' =
             [n \in 1..Len(TEST_QUERIES) |-> ComparisonResult(app, TEST_QUERIES[n], placement[n])]
    /\ results_ready' = TRUE
    /\ UNCHANGED <<pc, poolVars, filterVars, mergeVars, es_log, searchVars, page,
                   current_vote_index, votes, voting_complete, show_reason_popup, temp_vote,
                   vote_choice, eval_csv, clicks>>

\* The voting branch is the one drawn (app_rank.py line 264, app.py line 426).
VotingPage ==
    /\ page = "ranking"
    /\ results_ready
    /\ ~voting_complete

\* app.py lines 528-563: a vote button records the vote at once.
Vote ==
    /\ app = "app"
    /\ VotingPage
    /\ HasQuestion(comparison_results, current_vote_index)
    /\ \E choice \in Choices :
       \E result \in {CurrentResult(comparison_results, current_vote_index)} :
         /\ votes' = Append(votes, VoteRecord(app, result, choice))
         /\ clicks' = Append(clicks, choice)
    /\ current_vote_index' = current_vote_index + 1
    /\ UNCHANGED <<pc, poolVars, filterVars, mergeVars, es_log, searchVars, page, results_ready,
                   comparison_results, voting_complete, show_reason_popup, temp_vote,
                   vote_choice, eval_csv>>

\* app_rank.py lines 381-427: a vote button, drawn when the reason prompt
\* is not.
ClickVote ==
    /\ app = "app_rank"
    /\ VotingPage
    /\ HasQuestion(comparison_results, current_vote_index)
    /\ ~show_reason_popup
    /\ \E choice \in Choices :
       \E result \in {CurrentResult(comparison_results, current_vote_index)} :
         /\ temp_vote' = VoteRecord(app, result, choice)
         /\ vote_choice' = choice
         /\ clicks' = Append(clicks, choice)
    /\ show_reason_popup' = TRUE
    /\ UNCHANGED <<pc, poolVars, filterVars, mergeVars, es_log, searchVars, page, results_ready,
                   comparison_results, current_vote_index, votes, voting_complete, eval_csv>>

\* app_rank.py lines 357-380: 'Continue to Next Question'.
ContinueToNextQuestion ==
    /\ app = "app_rank"
    /\ VotingPage
    /\ HasQuestion(comparison_results, current_vote_index)
    /\ show_reason_popup
    /\ \E reason \in Reasons :
         votes' = IF temp_vote # PyNone THEN Append(votes, SetReason(temp_vote, reason))
                                        ELSE votes
    /\ show_reason_popup' = FALSE
    /\ temp_vote' = PyNone
    /\ vote_choice' = "None"
    /\ current_vote_index' = current_vote_index + 1
    /\ UNCHANGED <<pc, poolVars, filterVars, mergeVars, es_log, searchVars, page, results_ready,
                   comparison_results, voting_complete, eval_csv, clicks>>

\* app_rank.py lines 428-430, app.py lines 565-567: the run that finds no
\* question left.
CompleteVoting ==
    /\ VotingPage
    /\ ~HasQuestion(comparison_results, current_vote_index)
    /\ voting_complete' = TRUE
    /\ UNCHANGED <<pc, poolVars, filterVars, mergeVars, es_log, searchVars, page, results_ready,
                   comparison_results, current_vote_index, votes, show_reason_popup, temp_vote,
                   vote_choice, eval_csv, clicks>>

\* app_rank.py lines 433-502: 'Submit Results and rerun for next person'.
\* The page is drawn only when votes_df has a winner column (line 440), and
\* the file is written unless os.makedirs or to_csv fails.
SubmitResults ==
    /\ app = "app_rank"
    /\ page = "ranking"
    /\ results_ready
    /\ voting_complete
    /\ votes # <<>>
    /\ \E frame \in {votes_df(votes)}, saved \in BOOLEAN :
         eval_csv' = IF saved THEN [written |-> TRUE, rows |-> frame] ELSE eval_csv
    /\ current_vote_index' = 0
    /\ votes' = <<>>
    /\ voting_complete' = FALSE
    /\ clicks' = <<>>
    /\ UNCHANGED <<pc, poolVars, filterVars, mergeVars, es_log, searchVars, page, results_ready,
                   comparison_results, show_reason_popup, temp_vote, vote_choice>>

\* app.py lines 609-615: 'Start New Comparison'.
StartNewComparison ==
    /\ app = "app"
    /\ page = "ranking"
    /\ results_ready
    /\ voting_complete
    /\ votes # <<>>
    /\ results_ready' = FALSE
    /\ comparison_results' = <<>>
    /\ current_vote_index' = 0
    /\ votes' = <<>>
    /\ voting_complete' = FALSE
    /\ clicks' = <<>>
    /\ UNCHANGED <<pc, poolVars, filterVars, mergeVars, es_log, searchVars, page,
                   show_reason_popup, temp_vote, vote_choice, eval_csv>>

NextVote ==
    \/ GoToRanking
    \/ BackToAnalysis
    \/ StartComparison
    \/ Vote
    \/ ClickVote
    \/ ContinueToNextQuestion
    \/ CompleteVoting
    \/ SubmitResults
    \/ StartNewComparison

SpecVote == InitVote /\ [][NextVote]_vars

\* A voter who keeps voting: comes back to the ranking page, presses a vote
\* button whenever one is offered again and again, and confirms the reason
\* prompt; the run after the last vote is started by st.rerun() itself.
SpecVoteLive ==
    /\ InitVote
    /\ [][NextVote]_vars
    /\ WF_vars(GoToRanking)
    /\ SF_vars(Vote)
    /\ WF_vars(ClickVote)
    /\ WF_vars(ContinueToNextQuestion)
    /\ SF_vars(CompleteVoting)

\* The answer drawn on the side of a vote button.
ShownAnswer(result, click) ==
    IF click = "Answer A" THEN result.left[2].answer ELSE result.right[2].answer

VoteMatchesClick(vote, result, click) ==
    /\ vote.output_1 = run_pipeline_1(result.query).answer
    /\ vote.output_2 = run_pipeline_4(result.query).answer
    /\ click = "Don't Care" => vote.winner = "Don't Care"
    /\ click # "Don't Care" =>
          \/ vote.winner = "Pipeline 1" /\ ShownAnswer(result, click) = vote.output_1
          \/ vote.winner = "Pipeline 4" /\ ShownAnswer(result, click) = vote.output_2

\* C26: for every recorded vote, winner is the name of the pipeline whose
\* answer was shown on the side the voter clicked (Answer A = left,
\* Answer B = right) or "Don't Care", whatever the random placement was;
\* output_1 is Pipeline 1's answer and output_2 Pipeline 4's answer for
\* that query.
C26_WinnerIsClickedSide ==
    \A k \in 1..Len(votes) : VoteMatchesClick(votes[k], comparison_results[k], clicks[k])

C26_Witness ==
    /\ Len(votes) = 2
    /\ comparison_results[1].left[1] = "Pipeline 4"
    /\ clicks[1] = "Answer A"
    /\ votes[1].winner = "Pipeline 4"
    /\ comparison_results[2].left[1] = "Pipeline 4"
    /\ clicks[2] = "Answer B"
    /\ votes[2].winner = "Pipeline 1"

\* C27: after any sequence of button clicks the number of recorded votes
\* equals current_vote_index and the i-th recorded vote is for the query of
\* the i-th comparison result: no comparison is skipped or voted on twice.
C27_OneVotePerComparison ==
    /\ Len(votes) = current_vote_index
    /\ current_vote_index <= Len(comparison_results)
    /\ \A k \in 1..Len(votes) : votes[k].query = comparison_results[k].query

C27_Witness ==
    /\ voting_complete
    /\ Len(votes) = Len(TEST_QUERIES)
    /\ Len(votes) >= 2
    /\ votes[1].query # votes[2].query

BecomesComplete == ~voting_complete /\ voting_complete'

\* C28: voting_complete becomes true only in a state where results_ready is
\* true and current_vote_index equals the number of comparison results, and
\* once results are ready a voter who keeps voting reaches voting_complete.
C28_CompleteOnlyAfterAllVotes ==
    /\ [][BecomesComplete =>
            /\ results_ready
            /\ current_vote_index = Len(comparison_results)
            /\ Len(votes) = Len(comparison_results)]_vars
    /\ (results_ready ~> voting_complete)

C28_Witness ==
    /\ voting_complete
    /\ results_ready
    /\ current_vote_index = Len(comparison_results)
    /\ Len(comparison_results) >= 2

SubmitStep == app = "app_rank" /\ voting_complete /\ ~voting_complete'

\* C29: 'Submit Results and rerun for next person' of app_rank.py resets
\* current_vote_index to 0, votes to empty and voting_complete to false,
\* leaves results_ready and comparison_results as they were, and the file
\* it writes holds the votes of the round just completed.
C29_SubmitKeepsResults ==
    [][SubmitStep =>
         /\ current_vote_index' = 0
         /\ votes' = <<>>
         /\ results_ready' /\ results_ready
         /\ comparison_results' = comparison_results
         /\ eval_csv' # eval_csv => eval_csv' = [written |-> TRUE, rows |-> votes]]_vars

C29_Witness ==
    /\ app = "app_rank"
    /\ eval_csv.written
    /\ Len(eval_csv.rows) = Len(comparison_results)
    /\ Len(eval_csv.rows) >= 2
    /\ results_ready
    /\ ~voting_complete
    /\ votes = <<>>
    /\ current_vote_index = 0

PromptIffTempVote == show_reason_popup <=> temp_vote # PyNone

\* The last vote is temp_vote with the reason added.
CommitsTempVote ==
    /\ Len(votes') = Len(votes) + 1
    /\ SubSeq(votes', 1, Len(votes)) = votes
    /\ \E vote \in {votes'[Len(votes')]} :
         /\ DOMAIN vote = DOMAIN temp_vote \cup {"reason"}
         /\ vote.reason \in Reasons
         /\ \A k \in DOMAIN temp_vote : vote[k] = temp_vote[k]

TwoStepCommit ==
    /\ (~show_reason_popup /\ show_reason_popup') =>
          /\ temp_vote' # PyNone
          /\ votes' = votes
          /\ current_vote_index' = current_vote_index
    /\ (~show_reason_popup /\ ~show_reason_popup' /\ ~voting_complete) => votes' = votes
    /\ (show_reason_popup /\ show_reason_popup') =>
          /\ temp_vote' = temp_vote
          /\ votes' = votes
          /\ current_vote_index' = current_vote_index
    /\ (show_reason_popup /\ ~show_reason_popup') =>
          /\ CommitsTempVote
          /\ current_vote_index' = current_vote_index + 1
          /\ temp_vote' = PyNone
          /\ vote_choice' = "None"

\* C30: in app_rank.py a vote button only stores temp_vote and opens the
\* reason prompt, votes and current_vote_index unchanged; while the prompt
\* is open no vote button acts; 'Continue' appends exactly that temp_vote
\* with the reason, advances current_vote_index by one and clears temp_vote,
\* vote_choice and show_reason_popup; temp_vote is set exactly when
\* show_reason_popup is true.
C30_TwoStepCommit ==
    /\ [](app = "app_rank" => PromptIffTempVote)
    /\ [][app = "app_rank" => TwoStepCommit]_vars

C30_Witness ==
    /\ app = "app_rank"
    /\ Len(votes) = 1
    /\ votes[1].reason \in Reasons
    /\ show_reason_popup
    /\ temp_vote # PyNone
    /\ temp_vote.query # votes[1].query

====
